---- MODULE Spec2Model ----
(***************************************************************************)
(* A model of the agent loop of src/main.go: Agent.Run, Agent.executeTool, *)
(* Agent.runInterface and the four registered tools.                       *)
(*                                                                         *)
(* Go strings are modelled as sequences of symbols (TLA+ strings used as   *)
(* characters or as whole fixed messages), so that strings.Replace can be  *)
(* computed.  Paths, tool names and git commands are TLA+ strings.         *)
(***************************************************************************)
EXTENDS Integers, Sequences, FiniteSets, TLC

\* Bound on the number of model calls of one run.
MaxCalls == 2

\* Bound on the number of content blocks the model emits over one run.
MaxBlocks == 2

VARIABLES
    pc,             \* position of Run: loop, call, await, scan, exec, done, crashed
    conversation,   \* Run's local `conversation`
    readUserInput,  \* Run's local `readUserInput`
    message,        \* Content of the reply being scanned
    idx,            \* index of the range loop over message.Content
    toolResults,    \* Run's local `toolResults`
    ret,            \* what Run returned: "none" while running, "nil", "error",
                    \* "cancelled" (the error of the cancelled context)
    fs,             \* the file system the tools act on
    request,        \* context and parameters of the latest Messages.New call
    calls,          \* number of Messages.New calls made
    trace,          \* history: terminal output and call/execution events
    arg,            \* arguments of a function applied on its own, outside Run
    out             \* what that function returned

vars == <<pc, conversation, readUserInput, message, idx, toolResults, ret,
          fs, request, calls, trace, arg, out>>

----------------------------------------------------------------------------
(* Input shapes and schema generation *)

ReadFileInput ==
    <<[name |-> "path", type |-> "string", omitempty |-> FALSE,
       description |-> "The relative path of a file in the working directory."]>>

ListFilesInput ==
    <<[name |-> "path", type |-> "string", omitempty |-> TRUE,
       description |-> "Optional relative path to list files from. Defaults to current directory if not provided."]>>

EditFileInput ==
    <<[name |-> "path", type |-> "string", omitempty |-> FALSE,
       description |-> "The path to the file"],
      [name |-> "old_str", type |-> "string", omitempty |-> FALSE,
       description |-> "Text to search for - must match exactly and must only have one match exactly"],
      [name |-> "new_str", type |-> "string", omitempty |-> FALSE,
       description |-> "Text to replace old_str with"]>>

GitInput ==
    <<[name |-> "command", type |-> "string", omitempty |-> FALSE,
       description |-> "Git command to execute. Supported commands: init, clone, add, commit, status, log, branch, diff, reset"],
      [name |-> "path", type |-> "string", omitempty |-> TRUE,
       description |-> "Path where the repository is located or should be created"],
      [name |-> "url", type |-> "string", omitempty |-> TRUE,
       description |-> "URL of the repository to clone"],
      [name |-> "files", type |-> "string", omitempty |-> TRUE,
       description |-> "Files to add, comma-separated or glob pattern"],
      [name |-> "message", type |-> "string", omitempty |-> TRUE,
       description |-> "Commit message"],
      [name |-> "branch_name", type |-> "string", omitempty |-> TRUE,
       description |-> "Branch name for branch operations"]>>

\* reflector.Reflect(v) with AllowAdditionalProperties false and
\* DoNotReference true: the schema of a struct, fully inlined.
Reflect(shape) ==
    [Properties |-> { [name |-> shape[i].name, type |-> shape[i].type,
                       description |-> shape[i].description] :
                      i \in 1..Len(shape) },
     Required |-> { shape[i].name :
                    i \in { j \in 1..Len(shape) : ~shape[j].omitempty } },
     AdditionalProperties |-> FALSE,
     Definitions |-> {}]

\* GenerateSchema keeps only the reflected schema's Properties.
GenerateSchema(shape) == [Properties |-> Reflect(shape).Properties]

----------------------------------------------------------------------------
(* The file system and the raw inputs the model can supply *)

\* The paths of the modelled working directory, in lexical order.
Paths == <<"a.txt", "new.txt">>

NoFile == [exists |-> FALSE, content |-> <<>>]

File(c) == [exists |-> TRUE, content |-> c]

InitFS == [p \in {"a.txt", "new.txt"} |->
              IF p = "a.txt" THEN File(<<"x", "y", "x">>) ELSE NoFile]

Exists(f, p) == p \in DOMAIN f /\ f[p].exists

\* A raw JSON payload.  valid = FALSE stands for a payload that does not
\* decode into the tool's input struct (a field of the wrong JSON type, such
\* as {"path": 5}); an absent field decodes to the empty string.
Raw(p, o, n, c) ==
    [valid |-> TRUE, path |-> p, old_str |-> o, new_str |-> n, command |-> c]

BadRaw ==
    [valid |-> FALSE, path |-> "", old_str |-> <<>>, new_str |-> <<>>,
     command |-> ""]

----------------------------------------------------------------------------
(* The tool bodies.  Each returns an outcome [kind, text, fs]: kind "ok"   *)
(* is (text, nil), "err" is ("", error with message text), "panic" is a    *)
(* panic that leaves the function without returning.                       *)

Ok(t, f) == [kind |-> "ok", text |-> t, fs |-> f]

Err(t, f) == [kind |-> "err", text |-> t, fs |-> f]

Panic(t, f) == [kind |-> "panic", text |-> t, fs |-> f]

\* The error json.Unmarshal returns for a payload of the wrong shape.
UnmarshalError == <<"json: cannot unmarshal number into Go struct field">>

\* The error of os.ReadFile for a path that names no file.
NotExistError(p) == <<"open ", p, ": no such file or directory">>

\* os.WriteFile(path, content): the empty path names no file.
WriteFile(f, p, c) == [f EXCEPT ![p] = File(c)]

ReadFile(input, f) ==
    IF ~input.valid THEN Panic(UnmarshalError, f)
    ELSE IF ~Exists(f, input.path) THEN Err(NotExistError(input.path), f)
    ELSE Ok(f[input.path].content, f)

\* json.Marshal of a []string: a nil slice encodes as null.
JsonMarshal(files) ==
    IF files = <<>> THEN <<"null">> ELSE <<"[">> \o files \o <<"]">>

\* filepath.Walk(dir, ...) collecting the relative paths other than ".".
WalkFiles(f, dir) ==
    IF dir = "." THEN SelectSeq(Paths, LAMBDA p : Exists(f, p)) ELSE <<>>

ListFiles(input, f) ==
    IF ~input.valid THEN Panic(UnmarshalError, f)
    ELSE LET dir == IF input.path # "" THEN input.path ELSE "."
         IN  IF dir # "." /\ ~Exists(f, dir)
             THEN Err(<<"lstat ", dir, ": no such file or directory">>, f)
             ELSE Ok(JsonMarshal(WalkFiles(f, dir)), f)

\* strings.Replace(s, old, new, -1): every non-overlapping occurrence of old,
\* left to right; an empty old matches before every symbol and at the end.
RECURSIVE ReplaceAll(_, _, _)
ReplaceAll(s, old, new) ==
    IF old = <<>>
    THEN IF s = <<>> THEN new
         ELSE new \o <<Head(s)>> \o ReplaceAll(Tail(s), old, new)
    ELSE IF Len(s) < Len(old) THEN s
    ELSE IF SubSeq(s, 1, Len(old)) = old
         THEN new \o ReplaceAll(SubSeq(s, Len(old) + 1, Len(s)), old, new)
         ELSE <<Head(s)>> \o ReplaceAll(Tail(s), old, new)

\* ext: whether the operating system lets the write succeed.
createNewFile(filePath, content, f, ext) ==
    IF ~ext THEN Err(<<"failed to create file: ", filePath>>, f)
    ELSE Ok(<<"Successfully created file ", filePath>>,
            WriteFile(f, filePath, content))

\* A bug: the file is opened for writing, and so emptied, before the checks.
EditFileTruncatesFirst(input, f, ext) ==
    IF ~input.valid THEN Err(UnmarshalError, f)
    ELSE LET g == IF Exists(f, input.path)
                  THEN WriteFile(f, input.path, <<>>) ELSE f
         IN  IF input.path = "" \/ input.old_str = input.new_str
             THEN Err(<<"invalid input parameters">>, g)
             ELSE IF ~Exists(f, input.path)
             THEN IF input.old_str = <<>>
                  THEN createNewFile(input.path, input.new_str, f, ext)
                  ELSE Err(NotExistError(input.path), f)
             ELSE LET oldContent == f[input.path].content
                      newContent == ReplaceAll(oldContent, input.old_str,
                                               input.new_str)
                  IN  IF oldContent = newContent /\ input.old_str # <<>>
                      THEN Err(<<"old_str not found in file">>, g)
                      ELSE IF ~ext
                      THEN Err(<<"open ", input.path, ": permission denied">>, g)
                      ELSE Ok(<<"OK">>, WriteFile(f, input.path, newContent))

EditFile(input, f, ext) ==
    IF ~input.valid THEN Err(UnmarshalError, f)
    ELSE IF input.path = "" \/ input.old_str = input.new_str
    THEN Err(<<"invalid input parameters">>, f)
    ELSE IF ~Exists(f, input.path)
    THEN IF input.old_str = <<>>
         THEN createNewFile(input.path, input.new_str, f, ext)
         ELSE Err(NotExistError(input.path), f)
    ELSE LET oldContent == f[input.path].content
             newContent == ReplaceAll(oldContent, input.old_str, input.new_str)
         IN  IF oldContent = newContent /\ input.old_str # <<>>
             THEN Err(<<"old_str not found in file">>, f)
             ELSE IF ~ext THEN Err(<<"open ", input.path, ": permission denied">>, f)
             ELSE Ok(<<"OK">>, WriteFile(f, input.path, newContent))

\* The commands GitOperation's switch knows.
GitCommands ==
    {"init", "clone", "add", "commit", "status", "log", "branch", "reset", "diff"}

\* ext: whether the go-git call behind the command succeeds; the repository
\* itself is outside the model.
GitOperation(input, f, ext) ==
    IF ~input.valid THEN Err(UnmarshalError, f)
    ELSE IF input.command \notin GitCommands
    THEN Err(<<"unsupported git command: ", input.command>>, f)
    ELSE IF ext THEN Ok(<<"git ", input.command, " output">>, f)
    ELSE Err(<<"failed: git ", input.command>>, f)

----------------------------------------------------------------------------
(* The registry *)

ReadFileToolDefinition ==
    [Name |-> "read_file",
     Description |-> "Reads a file's contents, given a relative path. Useful for inspecting a file but does not work with directory names.",
     InputSchema |-> GenerateSchema(ReadFileInput)]

ListFilesDefinition ==
    [Name |-> "list_files",
     Description |-> "List files and directories at a given path. If no path is provided, lists files in the current directory.",
     InputSchema |-> GenerateSchema(ListFilesInput)]

EditFileDefinition ==
    [Name |-> "edit_file",
     Description |-> "Make edits to a text file.\n\nReplaces 'old_str' with 'new_str' in the given file. 'old_str' and 'new_str' MUST be different from each other.\n\nIf the file specified with path doesn't exist, it will be created.\n",
     InputSchema |-> GenerateSchema(EditFileInput)]

GitToolDefinition ==
    [Name |-> "git",
     Description |-> "Perform Git operations like init, clone, add, commit, and status on repositories",
     InputSchema |-> GenerateSchema(GitInput)]

\* main's `tools`, the registry handed to NewAgent.
tools ==
    <<ReadFileToolDefinition, ListFilesDefinition, EditFileDefinition,
      GitToolDefinition>>

\* toolDef.Function(input) for the definition registered at position k.
Function(k, input, f, ext) ==
    CASE k = 1 -> ReadFile(input, f)
      [] k = 2 -> ListFiles(input, f)
      [] k = 3 -> EditFile(input, f, ext)
      [] OTHER -> GitOperation(input, f, ext)

\* A bug: the loop has no break, so the last registered tool of the name wins.
RECURSIVE ScanNoBreak(_, _, _)
ScanNoBreak(registry, name, k) ==
    IF k > Len(registry) THEN 0
    ELSE LET later == ScanNoBreak(registry, name, k + 1)
         IN  IF later # 0 THEN later
             ELSE IF registry[k].Name = name THEN k ELSE 0

\* The loop of executeTool over a.tools from position k on: it stops at the
\* first tool whose Name is the string name (Go's ==) and yields its
\* position, 0 when the loop runs out (found stays false).
RECURSIVE Scan(_, _, _)
Scan(registry, name, k) ==
    IF k > Len(registry) THEN 0
    ELSE IF registry[k].Name = name THEN k
    ELSE Scan(registry, name, k + 1)

\* The scan of executeTool over main's registry.
Lookup(name) == Scan(tools, name, 1)

\* anthropic.NewToolResultBlock(id, content, isError)
NewToolResultBlock(id, content, isError) ==
    [type |-> "tool_result", tool_use_id |-> id, content |-> content,
     is_error |-> isError]

\* anthropic.NewTextBlock(text)
NewTextBlock(text) == [type |-> "text", text |-> text]

\* A bug: the message is built with the assistant's role.
NewUserMessageAsAssistant(blocks) == [role |-> "assistant", content |-> blocks]

\* anthropic.NewUserMessage(blocks...)
NewUserMessage(blocks) == [role |-> "user", content |-> blocks]

\* message.ToParam(): the reply as an assistant message of the transcript.
ToParam(content) == [role |-> "assistant", content |-> content]

\* The tool catalog runInterface builds from a.tools.
anthropicTools ==
    [k \in 1..Len(tools) |->
        [Name |-> tools[k].Name, Description |-> tools[k].Description,
         InputSchema |-> tools[k].InputSchema]]

----------------------------------------------------------------------------
(* What the environment can supply *)

\* The lines the human can type: their text decides nothing in Run.
Lines == {<<"hi">>}

\* The tool requests the model can make: a tool name and a raw input.
ToolUses ==
    { [name |-> "read_file",  input |-> Raw("a.txt", <<>>, <<>>, "")],
      [name |-> "read_file",  input |-> Raw("new.txt", <<>>, <<>>, "")],
      [name |-> "read_file",  input |-> BadRaw],
      [name |-> "list_files", input |-> Raw("", <<>>, <<>>, "")],
      [name |-> "list_files", input |-> BadRaw],
      [name |-> "edit_file",  input |-> Raw("a.txt", <<"x">>, <<"z">>, "")],
      [name |-> "edit_file",  input |-> BadRaw],
      [name |-> "git",        input |-> Raw("", <<>>, <<>>, "status")],
      [name |-> "git",        input |-> BadRaw],
      [name |-> "bogus",      input |-> Raw("a.txt", <<>>, <<>>, "")] }

\* A content block of a reply before the service gives it an id.
ProtoBlocks ==
    { [type |-> "text", id |-> 0, name |-> "",
       input |-> Raw("", <<>>, <<>>, ""), text |-> <<"hello">>] }
    \cup { [type |-> "tool_use", id |-> 0, name |-> u.name, input |-> u.input,
            text |-> <<>>] : u \in ToolUses }

ProtoReplies(n) == UNION { [1..k -> ProtoBlocks] : k \in 0..n }

\* The number of tool_use blocks among the first i blocks of ps.
RECURSIVE Rank(_, _)
Rank(ps, i) ==
    IF i = 0 THEN 0
    ELSE Rank(ps, i - 1) + (IF ps[i].type = "tool_use" THEN 1 ELSE 0)

\* The service's ids are opaque and unique: the tool_use blocks of a reply
\* get the ids base+1 .. base+m, ascending or descending.
WithIds(ps, base, desc) ==
    [i \in 1..Len(ps) |->
        IF ps[i].type = "tool_use"
        THEN [ps[i] EXCEPT !.id =
                 IF desc THEN base + Rank(ps, Len(ps)) + 1 - Rank(ps, i)
                 ELSE base + Rank(ps, i)]
        ELSE ps[i]]

\* The content blocks of all assistant messages of a transcript, in order.
RECURSIVE ModelBlocks(_)
ModelBlocks(conv) ==
    IF conv = <<>> THEN <<>>
    ELSE (IF Head(conv).role = "assistant" THEN Head(conv).content ELSE <<>>)
         \o ModelBlocks(Tail(conv))

\* The replies the service can give next: within the block budget, with ids
\* no earlier reply used.
Replies(conv) ==
    LET used == ModelBlocks(conv)
    IN  { WithIds(ps, Rank(used, Len(used)), desc) :
            ps \in ProtoReplies(MaxBlocks - Len(used)), desc \in BOOLEAN }

\* A history entry: what happened, the tool id and name it concerns, the text
\* involved and the length of the transcript after it.
Ev(e, i, n, t, l) == [ev |-> e, id |-> i, name |-> n, text |-> t, len |-> l]

----------------------------------------------------------------------------
(* Agent.Run *)

Init ==
    /\ pc = "loop"
    /\ conversation = <<>>
    /\ readUserInput = TRUE
    /\ message = <<>>
    /\ idx = 1
    /\ toolResults = <<>>
    /\ ret = "none"
    /\ fs = InitFS
    /\ request = [Ctx |-> "none", Messages |-> <<>>, Tools |-> <<>>]
    /\ calls = 0
    /\ trace = <<>>
    /\ arg = <<>>
    /\ out = <<>>

\* Lines 68-76 with ok = true: prompt, read a line, append the user message.
ReadUserInput ==
    /\ pc = "loop"
    /\ readUserInput
    /\ \E line \in Lines :
          conversation' =
              Append(conversation, NewUserMessage(<<NewTextBlock(line)>>))
    /\ pc' = "call"
    /\ trace' = trace \o <<Ev("prompt", 0, "", <<>>, Len(conversation)),
                           Ev("input", 0, "", <<>>, Len(conversation'))>>
    /\ UNCHANGED <<readUserInput, message, idx, toolResults, ret, fs, request,
                   calls>>
    /\ UNCHANGED <<arg, out>>

\* A bug: ok is ignored and the empty line is sent as a message.
EndOfStreamAsEmptyLine ==
    /\ pc = "loop"
    /\ readUserInput
    /\ conversation' =
          Append(conversation, NewUserMessage(<<NewTextBlock(<<>>)>>))
    /\ pc' = "call"
    /\ trace' = trace \o <<Ev("prompt", 0, "", <<>>, Len(conversation)),
                           Ev("eof", 0, "", <<>>, Len(conversation))>>
    /\ UNCHANGED <<readUserInput, message, idx, toolResults, ret, fs, request,
                   calls>>
    /\ UNCHANGED <<arg, out>>

\* Lines 68-73 with ok = false: break, and Run returns nil (line 106).
EndOfStream ==
    /\ pc = "loop"
    /\ readUserInput
    /\ pc' = "done"
    /\ ret' = "nil"
    /\ trace' = trace \o <<Ev("prompt", 0, "", <<>>, Len(conversation)),
                           Ev("eof", 0, "", <<>>, Len(conversation))>>
    /\ UNCHANGED <<conversation, readUserInput, message, idx, toolResults, fs,
                   request, calls>>
    /\ UNCHANGED <<arg, out>>

\* Line 68 with readUserInput false: straight on to the model call.
SkipUserInput ==
    /\ pc = "loop"
    /\ ~readUserInput
    /\ pc' = "call"
    /\ UNCHANGED <<conversation, readUserInput, message, idx, toolResults, ret,
                   fs, request, calls, trace>>
    /\ UNCHANGED <<arg, out>>

\* A bug: only the latest message is sent.
RequestMessagesLastOnly(conv) == <<conv[Len(conv)]>>

\* The Messages field runInterface sends.
RequestMessages(conv) == conv

\* runInterface up to the start of client.Messages.New.
CallModel ==
    /\ pc = "call"
    /\ calls < MaxCalls
    /\ request' = [Ctx |-> "ctx",
                   Messages |-> RequestMessages(conversation),
                   Tools |-> anthropicTools]
    /\ calls' = calls + 1
    /\ pc' = "await"
    /\ trace' = Append(trace, Ev("call", calls + 1, "", <<>>, Len(conversation)))
    /\ UNCHANGED <<conversation, readUserInput, message, idx, toolResults, ret,
                   fs>>
    /\ UNCHANGED <<arg, out>>

\* A bug: the scan ranges over the blocks of the earlier replies as well.
ModelReplyRescans ==
    /\ pc = "await"
    /\ \E reply \in Replies(conversation) :
          /\ message' = ModelBlocks(conversation) \o reply
          /\ conversation' = Append(conversation, ToParam(reply))
          /\ trace' = Append(trace, Ev("reply", Rank(reply, Len(reply)), "", <<>>,
                                      Len(conversation')))
    /\ idx' = 1
    /\ toolResults' = <<>>
    /\ pc' = "scan"
    /\ UNCHANGED <<readUserInput, ret, fs, request, calls>>
    /\ UNCHANGED <<arg, out>>

\* Messages.New returns a message: line 83 appends it and the scan starts.
ModelReply ==
    /\ pc = "await"
    /\ \E reply \in Replies(conversation) :
          /\ message' = reply
          /\ conversation' = Append(conversation, ToParam(reply))
          /\ trace' = Append(trace, Ev("reply", Rank(reply, Len(reply)), "", <<>>,
                                      Len(conversation')))
    /\ idx' = 1
    /\ toolResults' = <<>>
    /\ pc' = "scan"
    /\ UNCHANGED <<readUserInput, ret, fs, request, calls>>
    /\ UNCHANGED <<arg, out>>

\* A bug: the failed call is tried again instead of returned.
TransportFailureRetry ==
    /\ pc = "await"
    /\ pc' = "call"
    /\ trace' = Append(trace, Ev("fail", 0, "", <<>>, Len(conversation)))
    /\ UNCHANGED <<conversation, readUserInput, message, idx, toolResults, ret,
                   fs, request, calls>>
    /\ UNCHANGED <<arg, out>>

\* Messages.New returns an error: lines 80-82 return it.
TransportFailure ==
    /\ pc = "await"
    /\ pc' = "done"
    /\ ret' = "error"
    /\ trace' = Append(trace, Ev("fail", 0, "", <<>>, Len(conversation)))
    /\ UNCHANGED <<conversation, readUserInput, message, idx, toolResults, fs,
                   request, calls>>
    /\ UNCHANGED <<arg, out>>

\* A bug: the loop goes on after the cancelled call.
CancelledGoesOn ==
    /\ pc = "await"
    /\ request.Ctx = "ctx"
    /\ pc' = "loop"
    /\ trace' = Append(trace, Ev("cancel", 0, "", <<>>, Len(conversation)))
    /\ UNCHANGED <<conversation, readUserInput, message, idx, toolResults, ret,
                   fs, request, calls>>
    /\ UNCHANGED <<arg, out>>

\* The context Run was called with is cancelled while Messages.New, which got
\* that context (lines 79 and 144), is pending: the call returns the
\* context's error and lines 80-82 return it.
Cancelled ==
    /\ pc = "await"
    /\ request.Ctx = "ctx"
    /\ pc' = "done"
    /\ ret' = "cancelled"
    /\ trace' = Append(trace, Ev("cancel", 0, "", <<>>, Len(conversation)))
    /\ UNCHANGED <<conversation, readUserInput, message, idx, toolResults, fs,
                   request, calls>>
    /\ UNCHANGED <<arg, out>>

\* A bug: the text block is passed over without being printed.
ShowTextSilently ==
    /\ pc = "scan"
    /\ idx <= Len(message)
    /\ message[idx].type = "text"
    /\ idx' = idx + 1
    /\ UNCHANGED <<pc, conversation, readUserInput, message, toolResults, ret,
                   fs, request, calls, trace>>
    /\ UNCHANGED <<arg, out>>

\* Case "text" of the scan: the block is printed.
ShowText ==
    /\ pc = "scan"
    /\ idx <= Len(message)
    /\ message[idx].type = "text"
    /\ trace' = Append(trace, Ev("text", idx, "", message[idx].text,
                                Len(conversation)))
    /\ idx' = idx + 1
    /\ UNCHANGED <<pc, conversation, readUserInput, message, toolResults, ret,
                   fs, request, calls>>
    /\ UNCHANGED <<arg, out>>

\* A bug: the result is put in front of the slice.
AppendResultInFront(results, result) == <<result>> \o results

\* toolResults = append(toolResults, result)
AppendResult(results, result) == Append(results, result)

\* A bug: the result does not carry the id of the request.
NotFoundResultNoId(id) == NewToolResultBlock(0, <<"tool not found">>, TRUE)

\* A bug: the missing tool is reported as a success.
NotFoundResultNoError(id) == NewToolResultBlock(id, <<"tool not found">>, FALSE)

\* The block executeTool returns when no registered tool has the name.
NotFoundResult(id) == NewToolResultBlock(id, <<"tool not found">>, TRUE)

\* A bug: the error of toolDef.Function is dropped.
FunctionResultNoError(id, outcome) ==
    NewToolResultBlock(id, outcome.text, FALSE)

\* The block executeTool returns after toolDef.Function returned.
FunctionResult(id, outcome) ==
    IF outcome.kind = "err"
    THEN NewToolResultBlock(id, outcome.text, TRUE)
    ELSE NewToolResultBlock(id, outcome.text, FALSE)

\* Case "tool_use", executeTool lines 110-122 with found = false.
ToolNotFound ==
    /\ pc = "scan"
    /\ idx <= Len(message)
    /\ message[idx].type = "tool_use"
    /\ Lookup(message[idx].name) = 0
    /\ toolResults' = AppendResult(toolResults, NotFoundResult(message[idx].id))
    /\ idx' = idx + 1
    /\ trace' = Append(trace, Ev("notfound", message[idx].id, message[idx].name,
                                <<>>, Len(conversation)))
    /\ UNCHANGED <<pc, conversation, readUserInput, message, ret, fs, request,
                   calls>>
    /\ UNCHANGED <<arg, out>>

\* A bug: the tool is started without waiting for it (go executeTool).
DispatchToolAsync ==
    /\ pc = "scan"
    /\ idx <= Len(message)
    /\ message[idx].type = "tool_use"
    /\ Lookup(message[idx].name) # 0
    /\ trace' = trace \o <<Ev("log", message[idx].id, message[idx].name,
                              <<message[idx].input>>, Len(conversation)),
                           Ev("start", message[idx].id,
                              tools[Lookup(message[idx].name)].Name, <<>>,
                              Len(conversation))>>
    /\ toolResults' = Append(toolResults,
                             NewToolResultBlock(message[idx].id, <<>>, FALSE))
    /\ idx' = idx + 1
    /\ UNCHANGED <<pc, conversation, readUserInput, message, ret, fs, request,
                   calls>>
    /\ UNCHANGED <<arg, out>>

\* A bug: the tool is entered without the log line.
DispatchToolUnlogged ==
    /\ pc = "scan"
    /\ idx <= Len(message)
    /\ message[idx].type = "tool_use"
    /\ Lookup(message[idx].name) # 0
    /\ pc' = "exec"
    /\ trace' = Append(trace, Ev("start", message[idx].id,
                                tools[Lookup(message[idx].name)].Name, <<>>,
                                Len(conversation)))
    /\ UNCHANGED <<conversation, readUserInput, message, idx, toolResults, ret,
                   fs, request, calls>>
    /\ UNCHANGED <<arg, out>>

\* Case "tool_use", executeTool lines 110-125 with found = true: the log line
\* with the name and the raw input is printed and toolDef.Function is entered.
DispatchTool ==
    /\ pc = "scan"
    /\ idx <= Len(message)
    /\ message[idx].type = "tool_use"
    /\ Lookup(message[idx].name) # 0
    /\ pc' = "exec"
    /\ trace' = trace \o <<Ev("log", message[idx].id, message[idx].name,
                              <<message[idx].input>>, Len(conversation)),
                           Ev("start", message[idx].id,
                              tools[Lookup(message[idx].name)].Name, <<>>,
                              Len(conversation))>>
    /\ UNCHANGED <<conversation, readUserInput, message, idx, toolResults, ret,
                   fs, request, calls>>
    /\ UNCHANGED <<arg, out>>

\* toolDef.Function returns (lines 125-130), or panics and ends the process.
ToolReturn ==
    /\ pc = "exec"
    /\ \E ext \in BOOLEAN :
          LET b == message[idx]
              outcome == Function(Lookup(b.name), b.input, fs, ext)
          IN  /\ fs' = outcome.fs
              /\ IF outcome.kind = "panic"
                 THEN /\ pc' = "crashed"
                      /\ trace' = Append(trace, Ev("panic", b.id, "panic", outcome.text,
                                                Len(conversation)))
                      /\ UNCHANGED <<idx, toolResults>>
                 ELSE /\ pc' = "scan"
                      /\ trace' = Append(trace, Ev("end", b.id, outcome.kind, outcome.text,
                                                Len(conversation)))
                      /\ toolResults' =
                            AppendResult(toolResults, FunctionResult(b.id, outcome))
                      /\ idx' = idx + 1
    /\ UNCHANGED <<conversation, readUserInput, message, ret, request, calls>>
    /\ UNCHANGED <<arg, out>>

\* A bug: the flag is not set again after a reply without tool requests.
YieldToHumanNoRead ==
    /\ pc = "scan"
    /\ idx > Len(message)
    /\ Len(toolResults) = 0
    /\ readUserInput' = readUserInput
    /\ pc' = "loop"
    /\ UNCHANGED <<conversation, message, idx, toolResults, ret, fs, request,
                   calls, trace>>
    /\ UNCHANGED <<arg, out>>

\* Lines 97-100: no tool was requested, the human is asked next.
YieldToHuman ==
    /\ pc = "scan"
    /\ idx > Len(message)
    /\ Len(toolResults) = 0
    /\ readUserInput' = TRUE
    /\ pc' = "loop"
    /\ UNCHANGED <<conversation, message, idx, toolResults, ret, fs, request,
                   calls, trace>>
    /\ UNCHANGED <<arg, out>>

\* A bug: the tool-result message is stored over the reply it answers.
SendToolResultsOverReply ==
    /\ pc = "scan"
    /\ idx > Len(message)
    /\ Len(toolResults) # 0
    /\ readUserInput' = FALSE
    /\ conversation' = [conversation EXCEPT
                            ![Len(conversation)] = NewUserMessage(toolResults)]
    /\ pc' = "loop"
    /\ UNCHANGED <<message, idx, toolResults, ret, fs, request, calls, trace>>
    /\ UNCHANGED <<arg, out>>

\* A bug: the flag is left set after a round of tool results.
SendToolResultsThenAsk ==
    /\ pc = "scan"
    /\ idx > Len(message)
    /\ Len(toolResults) # 0
    /\ readUserInput' = TRUE
    /\ conversation' = Append(conversation, NewUserMessage(toolResults))
    /\ pc' = "loop"
    /\ UNCHANGED <<message, idx, toolResults, ret, fs, request, calls, trace>>
    /\ UNCHANGED <<arg, out>>

\* Lines 102-103: the results go back to the model without asking the human.
SendToolResults ==
    /\ pc = "scan"
    /\ idx > Len(message)
    /\ Len(toolResults) # 0
    /\ readUserInput' = FALSE
    /\ conversation' = Append(conversation, NewUserMessage(toolResults))
    /\ pc' = "loop"
    /\ UNCHANGED <<message, idx, toolResults, ret, fs, request, calls, trace>>
    /\ UNCHANGED <<arg, out>>

Next ==
    \/ ReadUserInput
    \/ EndOfStream
    \/ SkipUserInput
    \/ CallModel
    \/ ModelReply
    \/ TransportFailure
    \/ Cancelled
    \/ ShowText
    \/ ToolNotFound
    \/ DispatchTool
    \/ ToolReturn
    \/ YieldToHuman
    \/ SendToolResults

Spec == Init /\ [][Next]_vars

----------------------------------------------------------------------------
(* Run with an environment that lets it come to an end *)

\* The input source still has a line: it signals the end of the stream once
\* MaxCalls model calls were made.
ReadUserInputBeforeEnd ==
    /\ calls < MaxCalls
    /\ ReadUserInput

\* The model's runs of tool-requesting replies are finite: the reply to the
\* MaxCalls-th call requests no tool.
ModelReplyRunEnds ==
    /\ ModelReply
    /\ calls = MaxCalls => Rank(message', Len(message')) = 0

\* Every step but the arrival of a reply.
Progress ==
    \/ ReadUserInputBeforeEnd
    \/ EndOfStream
    \/ SkipUserInput
    \/ CallModel
    \/ TransportFailure
    \/ Cancelled
    \/ ShowText
    \/ ToolNotFound
    \/ DispatchTool
    \/ ToolReturn
    \/ YieldToHuman
    \/ SendToolResults

FairNext ==
    \/ Progress
    \/ ModelReplyRunEnds

\* Run is a running goroutine, so its own steps are taken, and the read of
\* the input and the tool return once started.  A pending model call ends:
\* while it is pending its failure stays possible, so weak fairness on
\* Progress rules out that it stays pending for ever, and the arrival of a
\* reply ends it just as well.
FairSpec == Init /\ [][FairNext]_vars /\ WF_vars(Progress)

----------------------------------------------------------------------------
(* Functions applied on their own *)

\* Run is not running: no transcript, no call, the files as they start.
Unit ==
    /\ pc = "unit"
    /\ conversation = <<>>
    /\ readUserInput = TRUE
    /\ message = <<>>
    /\ idx = 1
    /\ toolResults = <<>>
    /\ ret = "none"
    /\ fs = InitFS
    /\ request = [Ctx |-> "none", Messages |-> <<>>, Tools |-> <<>>]
    /\ calls = 0
    /\ trace = <<>>

\* Bound on the number of tools of a registry handed to NewAgent.
MaxTools == 3

\* Names tools are registered under and asked for by: two differ only in the
\* case of a letter.
ToolNames == {"git", "Git", "read_file"}

\* The registries NewAgent can be given: the k-th definition has its own
\* Function, identified by k; names may repeat.
Registries ==
    UNION { { [k \in 1..n |-> [Name |-> names[k], Function |-> k]] :
                names \in [1..n -> ToolNames] } : n \in 0..MaxTools }

LookupInit ==
    /\ Unit
    /\ arg \in { [registry |-> r, name |-> n] : r \in Registries, n \in ToolNames }
    /\ out = <<>>

\* executeTool(id, name, input) of an agent with the registry arg.registry:
\* which Function it enters (0: none, the result is "tool not found").
ExecuteToolFound ==
    /\ pc = "unit"
    /\ out = <<>>
    /\ Scan(arg.registry, arg.name, 1) # 0
    /\ out' = <<[found |-> TRUE,
                 ran |-> arg.registry[Scan(arg.registry, arg.name, 1)].Function]>>
    /\ UNCHANGED <<pc, conversation, readUserInput, message, idx, toolResults,
                   ret, fs, request, calls, trace, arg>>

\* executeTool when the loop finds no definition: no Function is entered.
ExecuteToolMissing ==
    /\ pc = "unit"
    /\ out = <<>>
    /\ Scan(arg.registry, arg.name, 1) = 0
    /\ out' = <<[found |-> FALSE, ran |-> 0]>>
    /\ UNCHANGED <<pc, conversation, readUserInput, message, idx, toolResults,
                   ret, fs, request, calls, trace, arg>>

LookupNext ==
    \/ ExecuteToolFound
    \/ ExecuteToolMissing

LookupSpec == LookupInit /\ [][LookupNext]_vars

\* Bound on the length of the content of a file.
MaxLen == 3

\* Bound on the length of old_str and new_str.
MaxStr == 2

\* The strings of at most n symbols over an alphabet.
Strings(alphabet, n) == UNION { [1..k -> alphabet] : k \in 0..n }

\* The working directories edit_file can find: a.txt is missing or holds any
\* content over {x, y}; new.txt is missing.
FileSystems ==
    { [p \in {"a.txt", "new.txt"} |-> IF p = "a.txt" THEN a ELSE NoFile] :
        a \in {NoFile} \cup { File(c) : c \in Strings({"x", "y"}, MaxLen) } }

\* The payloads edit_file can be given: one that does not decode, and every
\* path, old_str and new_str of the sets below.
EditInputs ==
    {BadRaw}
    \cup { Raw(p, o, n, "") : p \in {"", "a.txt"},
                              o \in Strings({"x", "y"}, MaxStr),
                              n \in Strings({"z"}, MaxStr) \cup {<<"x">>} }

EditInit ==
    /\ pc = "unit"
    /\ conversation = <<>>
    /\ readUserInput = TRUE
    /\ message = <<>>
    /\ idx = 1
    /\ toolResults = <<>>
    /\ ret = "none"
    /\ fs \in FileSystems
    /\ request = [Ctx |-> "none", Messages |-> <<>>, Tools |-> <<>>]
    /\ calls = 0
    /\ trace = <<>>
    /\ \E i \in EditInputs, e \in BOOLEAN :
          arg = [input |-> i, ext |-> e, before |-> fs]
    /\ out = <<>>

\* EditFile(input) on the working directory fs: out is what it returned, fs
\* what it left on disk.
ApplyEditFile ==
    /\ pc = "unit"
    /\ out = <<>>
    /\ out' = <<EditFile(arg.input, fs, arg.ext)>>
    /\ fs' = EditFile(arg.input, fs, arg.ext).fs
    /\ UNCHANGED <<pc, conversation, readUserInput, message, idx, toolResults,
                   ret, request, calls, trace, arg>>

EditNext == ApplyEditFile

EditSpec == EditInit /\ [][EditNext]_vars

----------------------------------------------------------------------------
(* Vocabulary of the properties *)

IsToolUse(b) == b.type = "tool_use"

IsToolResult(b) == b.type = "tool_result"

\* The tool_use blocks of a content, in order.
ToolUsesOf(content) == SelectSeq(content, IsToolUse)

Registered(name) == \E k \in 1..Len(tools) : tools[k].Name = name

\* Run is at a point outside the scan of a reply and still alive.
BetweenRounds == pc \in {"loop", "call", "await", "done"}

\* Every tool_result block built so far: those of the transcript and those
\* of the round in progress.
ResultBlocks ==
    { toolResults[i] : i \in 1..Len(toolResults) }
    \cup UNION { { conversation[k].content[i] :
                     i \in { j \in 1..Len(conversation[k].content) :
                             IsToolResult(conversation[k].content[j]) } } :
                 k \in 1..Len(conversation) }

\* The position of the first "call" entry of the history after position i,
\* Len(trace) + 1 when there is none.
NextCallAfter(i) ==
    LET later == { j \in (i + 1)..Len(trace) : trace[j].ev = "call" }
    IN  IF later = {} THEN Len(trace) + 1
        ELSE CHOOSE j \in later : \A k \in later : j <= k

\* Between history position i and the next model call Run neither asks the
\* human nor returns.
StaysInLoopAfter(i) ==
    /\ \A j \in (i + 1)..(NextCallAfter(i) - 1) :
          trace[j].ev \notin {"prompt", "input", "eof", "fail"}
    /\ NextCallAfter(i) > Len(trace) => ret = "none"

----------------------------------------------------------------------------
(* C1 *)

----------------------------------------------------------------------------
(* C2 *)

----------------------------------------------------------------------------
(* C3 *)

----------------------------------------------------------------------------
(* C4 *)

\* C4: every invocation of a registered tool with an input that does not
\* decode ends in a failure return that becomes an is_error tool_result;
\* the process is never aborted.
C4_MalformedInputIsFailure ==
    /\ pc # "crashed"
    /\ LET blocks == ModelBlocks(conversation)
       IN  \A k \in 1..Len(blocks) :
             (IsToolUse(blocks[k]) /\ Registered(blocks[k].name)
                /\ ~blocks[k].input.valid) =>
               \A r \in ResultBlocks :
                   r.tool_use_id = blocks[k].id => r.is_error = TRUE

----------------------------------------------------------------------------
(* C5 *)

\* The ids of the "start" entries of the history, in order.
RECURSIVE StartIds(_)
StartIds(t) ==
    IF t = <<>> THEN <<>>
    ELSE (IF Head(t).ev = "start" THEN <<Head(t).id>> ELSE <<>>)
         \o StartIds(Tail(t))

\* The ids of the requests for registered tools in a content, in order.
RECURSIVE RegisteredIds(_)
RegisteredIds(blocks) ==
    IF blocks = <<>> THEN <<>>
    ELSE (IF IsToolUse(Head(blocks)) /\ Registered(Head(blocks).name)
          THEN <<Head(blocks).id>> ELSE <<>>)
         \o RegisteredIds(Tail(blocks))

\* C5: the executions are started in the order the replies list the
\* requests; an execution that has started ends before anything else
\* happens (no other execution, no model call), and while it has not ended
\* Run is inside it.
C5_SequentialInOrder ==
    /\ LET started == StartIds(trace)
           asked == RegisteredIds(ModelBlocks(conversation))
       IN  /\ Len(started) <= Len(asked)
           /\ started = SubSeq(asked, 1, Len(started))
           /\ BetweenRounds => started = asked
    /\ \A i \in 1..Len(trace) :
          trace[i].ev = "start" =>
             IF i = Len(trace) THEN pc = "exec"
             ELSE /\ trace[i + 1].ev \in {"end", "panic"}
                  /\ trace[i + 1].id = trace[i].id
    /\ pc = "exec" => trace[Len(trace)].ev = "start"

\* Two executions of one reply have completed, the second-listed id first in
\* numeric order.
C5_Witness ==
    LET started == StartIds(trace)
    IN  /\ Len(started) = 2
        /\ started[1] > started[2]
        /\ trace[Len(trace)].ev = "end"

----------------------------------------------------------------------------
(* C6 *)

IsNotText(e) == e.ev # "text"

\* The history entries strictly between positions i and j other than the
\* display of text blocks.
Between(i, j) == SelectSeq(SubSeq(trace, i + 1, j - 1), IsNotText)

\* C6: after a reply without tool_use blocks, all that happens up to the
\* next model call is one prompt and one read of human input (or the end of
\* the stream, and then no call): the prompt finds the transcript as the
\* reply left it, the line read is the one message appended, and Run does
\* not reach the model call any other way.
C6_ZeroToolsOneRead ==
    \A i \in 1..Len(trace) :
        (trace[i].ev = "reply" /\ trace[i].id = 0) =>
          LET j == NextCallAfter(i)
              E == Between(i, j)
          IN  /\ \/ E = <<>>
                 \/ /\ Len(E) = 2
                    /\ E[1].ev = "prompt"
                    /\ E[1].len = trace[i].len
                    /\ E[2].ev \in {"input", "eof"}
                    /\ E[2].len = trace[i].len + (IF E[2].ev = "input" THEN 1 ELSE 0)
              /\ (j <= Len(trace) \/ pc \in {"call", "await"}) =>
                    /\ Len(E) = 2
                    /\ E[2].ev = "input"
                    /\ Len(conversation) >= trace[i].len + 1
                    /\ conversation[trace[i].len + 1].role = "user"
                    /\ conversation[trace[i].len + 1].content[1].type = "text"
              /\ j <= Len(trace) => trace[j].len = trace[i].len + 1
              /\ (E = <<>> /\ pc = "loop") =>
                    readUserInput /\ Len(conversation) = trace[i].len

\* A reply of text only was followed by a read and by the second model call.
C6_Witness ==
    /\ calls = 2
    /\ pc = "await"
    /\ \E i \in 1..Len(trace) :
          /\ trace[i].ev = "reply"
          /\ trace[i].id = 0
          /\ trace[i + 1].ev = "text"

----------------------------------------------------------------------------
(* C7 *)

\* C7: after a reply with at least one tool_use block no prompt and no read
\* of human input happens before the next model call; once the tool-result
\* message is appended Run is headed for the model call with readUserInput
\* false, and that call finds exactly that one message added.
C7_ToolRoundSkipsHuman ==
    \A i \in 1..Len(trace) :
        (trace[i].ev = "reply" /\ trace[i].id >= 1) =>
          LET j == NextCallAfter(i)
          IN  /\ \A k \in (i + 1)..(j - 1) :
                    trace[k].ev \notin {"prompt", "input", "eof"}
              /\ j <= Len(trace) => trace[j].len = trace[i].len + 1
              /\ (j > Len(trace) /\ pc \in {"loop", "call"}) =>
                    /\ ~readUserInput
                    /\ Len(conversation) = trace[i].len + 1
                    /\ IsToolResult(conversation[Len(conversation)].content[1])

\* The second model call was made right after a round of tool results.
C7_Witness ==
    /\ calls = 2
    /\ pc = "await"
    /\ IsToolResult(conversation[Len(conversation)].content[1])

----------------------------------------------------------------------------
(* C8 *)

\* C8: a failed model call is the last thing that happens: Run has returned
\* the error, nothing was appended to the transcript since, and no call,
\* execution or read follows it; Run returns the transport's error in no
\* other case.
C8_TransportFailureIsFinal ==
    /\ \A i \in 1..Len(trace) :
          trace[i].ev = "fail" =>
             /\ i = Len(trace)
             /\ trace[i - 1].ev = "call"
             /\ pc = "done"
             /\ ret = "error"
             /\ Len(conversation) = trace[i].len
             /\ conversation = request.Messages
    /\ ret = "error" => trace[Len(trace)].ev = "fail"

\* The second model call, made after a tool round, failed.
C8_Witness ==
    /\ ret = "error"
    /\ calls = 2
    /\ \E i \in 1..Len(trace) : trace[i].ev = "end"

----------------------------------------------------------------------------
(* C9 *)

\* C9: the end of the input stream is the last thing that happens: Run has
\* returned nil, no model call follows and the transcript is as the prompt
\* found it; at the first read that is the empty transcript and no model
\* call at all.  Run returns nil in no other case.
C9_EndOfStreamReturnsNil ==
    /\ \A i \in 1..Len(trace) :
          trace[i].ev = "eof" =>
             /\ i = Len(trace)
             /\ pc = "done"
             /\ ret = "nil"
             /\ Len(conversation) = trace[i].len
             /\ Len(conversation) = trace[i - 1].len
             /\ i = 2 => (conversation = <<>> /\ calls = 0)
             /\ Cardinality({ j \in 1..Len(trace) : trace[j].ev = "call" })
                   = calls
             /\ conversation # <<>> =>
                   conversation[Len(conversation)].role = "assistant"
    /\ ret = "nil" => trace[Len(trace)].ev = "eof"

\* The stream ended after two model calls.
C9_Witness ==
    /\ ret = "nil"
    /\ calls = 2

----------------------------------------------------------------------------
(* C10 *)

\* The history position of the latest "call" entry, 0 when there is none.
LastCall ==
    LET cs == { j \in 1..Len(trace) : trace[j].ev = "call" }
    IN  IF cs = {} THEN 0 ELSE CHOOSE j \in cs : \A k \in cs : k <= j

\* C10: while a model call is pending its Messages are the whole transcript,
\* ending with the user message just appended, and at any time the latest
\* call's Messages are the transcript as it was at that call; its Tools
\* hold, for every registered tool in order, the tool's name, description
\* and schema.
C10_WholeTranscriptAndCatalog ==
    calls > 0 =>
      /\ pc = "await" =>
            /\ request.Messages = conversation
            /\ conversation[Len(conversation)].role = "user"
      /\ Len(request.Messages) = trace[LastCall].len
      /\ request.Messages = SubSeq(conversation, 1, trace[LastCall].len)
      /\ Len(request.Tools) = Len(tools)
      /\ \A k \in 1..Len(tools) :
            /\ request.Tools[k].Name = tools[k].Name
            /\ request.Tools[k].Description = tools[k].Description
            /\ request.Tools[k].InputSchema = tools[k].InputSchema

\* The second model call is pending and carries the tool results of the
\* first reply.
C10_Witness ==
    /\ calls = 2
    /\ pc = "await"
    /\ Len(request.Messages) = 3
    /\ IsToolResult(request.Messages[3].content[1])
    /\ request.Messages[3].content[1].is_error = FALSE

----------------------------------------------------------------------------
(* C11 *)

\* C11: every step of Run leaves the transcript unchanged or extends it by
\* one message at its end: the messages already there keep their position
\* and their content.
C11_AppendOnly ==
    [][\/ conversation' = conversation
       \/ /\ Len(conversation') = Len(conversation) + 1
          /\ SubSeq(conversation', 1, Len(conversation)) = conversation]_vars

\* The transcript has grown to five messages: two lines of input or tool
\* rounds, two replies and the results of the second.
C11_Witness ==
    /\ Len(conversation) = 5
    /\ conversation[5].role = "user"
    /\ IsToolResult(conversation[5].content[1])

----------------------------------------------------------------------------
(* C12 *)

\* The ids of the tool_use blocks of a content.
UseIds(content) ==
    { content[j].id : j \in { i \in 1..Len(content) : IsToolUse(content[i]) } }

\* C12: every user message of the transcript is either exactly one text
\* block holding a line the human typed, or one or more blocks that are all
\* tool_result blocks, each carrying the id of a tool_use block of the
\* assistant message right before it; so it holds no tool_use block and
\* never text next to tool results.
C12_HumanMessageShape ==
    \A k \in 1..Len(conversation) :
        conversation[k].role = "user" =>
          LET c == conversation[k].content
          IN  \/ /\ Len(c) = 1
                 /\ c[1].type = "text"
                 /\ c[1].text \in Lines
              \/ /\ Len(c) >= 1
                 /\ \A i \in 1..Len(c) : IsToolResult(c[i])
                 /\ k > 1
                 /\ conversation[k - 1].role = "assistant"
                 /\ \A i \in 1..Len(c) :
                       c[i].tool_use_id \in UseIds(conversation[k - 1].content)

\* The transcript holds a typed line and a message of two tool results, one
\* of them for an unregistered tool.
C12_Witness ==
    /\ Len(conversation) >= 3
    /\ conversation[1].content[1].type = "text"
    /\ conversation[3].role = "user"
    /\ Len(conversation[3].content) = 2
    /\ \E i \in 1..2 : conversation[3].content[i].content = <<"tool not found">>

----------------------------------------------------------------------------
(* C13 *)

\* C13: a cancellation while a model call is pending is the last thing that
\* happens: it follows the call directly, Run has returned the cancellation
\* error, the transcript is as the call found it, every tool execution
\* started before had ended (none in flight, none left half done) and none
\* is started after; Run returns the cancellation error in no other case.
C13_CancelAbortsPendingCall ==
    /\ \A i \in 1..Len(trace) :
          trace[i].ev = "cancel" =>
             /\ i = Len(trace)
             /\ trace[i - 1].ev = "call"
             /\ pc = "done"
             /\ ret = "cancelled"
             /\ Len(conversation) = trace[i].len
             /\ conversation = request.Messages
             /\ \A j \in 1..(i - 1) :
                   trace[j].ev = "start" =>
                      /\ trace[j + 1].ev = "end"
                      /\ trace[j + 1].id = trace[j].id
    /\ ret = "cancelled" => trace[Len(trace)].ev = "cancel"

\* The second model call, made after a tool round that changed a file, was
\* cancelled.
C13_Witness ==
    /\ ret = "cancelled"
    /\ calls = 2
    /\ fs # InitFS
    /\ \E i \in 1..Len(trace) : trace[i].ev = "end"

----------------------------------------------------------------------------
(* C14 *)

\* The positions of a registry whose definition has exactly the name n.
Hits(r, n) == { k \in 1..Len(r) : r[k].Name = n }

\* C14: executeTool finds a definition exactly when some registered name is
\* the requested string, letter case included; the Function it enters is
\* then the one of the earliest such definition and of no other, and it
\* enters none when no name is equal.
C14_FirstExactMatch ==
    out # <<>> =>
       LET hits == Hits(arg.registry, arg.name)
       IN  /\ out[1].found = (hits # {})
           /\ hits = {} => out[1].ran = 0
           /\ hits # {} =>
                 /\ out[1].ran \in hits
                 /\ \A j \in hits : out[1].ran <= j

\* The name asked for is registered twice, after a definition whose name
\* differs from it only in case, and the second-registered definition ran.
C14_Witness ==
    /\ out # <<>>
    /\ arg.name = "git"
    /\ Len(arg.registry) = 3
    /\ arg.registry[1].Name = "Git"
    /\ arg.registry[2].Name = "git"
    /\ arg.registry[3].Name = "git"
    /\ out[1].ran = 2

----------------------------------------------------------------------------
(* C15 *)

\* The input shape each registered tool declares, in registration order.
Shapes == <<ReadFileInput, ListFilesInput, EditFileInput, GitInput>>

\* A schema forbids properties it does not declare only if it says so: a
\* schema without the additionalProperties keyword allows them.
ForbidsAdditional(s) ==
    /\ "AdditionalProperties" \in DOMAIN s
    /\ s.AdditionalProperties = FALSE

\* A schema has no cross-references when it carries no definitions table.
IsInlined(s) == "Definitions" \in DOMAIN s => s.Definitions = {}

\* C15: the schema advertised for every registered tool lists the name,
\* type and description of each field of the tool's input shape and of
\* nothing else, forbids additional properties, holds no cross-references
\* and is what GenerateSchema yields for that shape on any call.
C15_SchemaContract ==
    calls > 0 =>
      \A k \in 1..Len(tools) :
          LET s == request.Tools[k].InputSchema
          IN  /\ s.Properties =
                    { [name |-> Shapes[k][i].name, type |-> Shapes[k][i].type,
                       description |-> Shapes[k][i].description] :
                      i \in 1..Len(Shapes[k]) }
              /\ IsInlined(s)
              /\ s = GenerateSchema(Shapes[k])
              /\ ForbidsAdditional(s)

----------------------------------------------------------------------------
(* C16 *)

\* C16: whenever edit_file has been applied to a payload that decodes, with
\* a path that is not empty and names no file and with old_str different
\* from new_str, and the operating system permits the write, the file exists
\* afterwards.
C16_MissingFileIsCreated ==
    (/\ out # <<>>
     /\ arg.input.valid
     /\ arg.input.path # ""
     /\ arg.input.old_str # arg.input.new_str
     /\ ~Exists(arg.before, arg.input.path)
     /\ arg.ext)
    => Exists(fs, arg.input.path)

----------------------------------------------------------------------------
(* C17 *)

\* The positions of s at which old occurs.
Occurrences(s, old) ==
    { i \in 1..(Len(s) - Len(old) + 1) : SubSeq(s, i, i + Len(old) - 1) = old }

\* s with the occurrence of old at position i replaced by new.
ReplacedAt(s, i, old, new) ==
    SubSeq(s, 1, i - 1) \o new \o SubSeq(s, i + Len(old), Len(s))

\* C17: whenever edit_file has succeeded on a file that existed, old_str
\* occurred in the file's content at exactly one position, and the content
\* afterwards is the content before with that one occurrence replaced by
\* new_str.
C17_SingleOccurrenceReplaced ==
    (/\ out # <<>>
     /\ out[1].kind = "ok"
     /\ Exists(arg.before, arg.input.path))
    => LET s == arg.before[arg.input.path].content
           occ == Occurrences(s, arg.input.old_str)
       IN  /\ Cardinality(occ) = 1
           /\ \A i \in occ :
                 fs[arg.input.path].content =
                    ReplacedAt(s, i, arg.input.old_str, arg.input.new_str)

----------------------------------------------------------------------------
(* C18 *)

\* The content of the reply whose arrival is history entry r.
ReplyAt(r) == conversation[trace[r].len].content

\* The history position of the first "reply" entry after r, Len(trace) + 1
\* when there is none: the entries between belong to the reply of r.
NextReplyAfter(r) ==
    LET later == { j \in (r + 1)..Len(trace) : trace[j].ev = "reply" }
    IN  IF later = {} THEN Len(trace) + 1
        ELSE CHOOSE j \in later : \A k \in later : j <= k

\* The positions of the text blocks of a content.
TextBlocks(content) == { i \in 1..Len(content) : content[i].type = "text" }

\* The positions of the text blocks displayed after entry r and before
\* entry p.
TextShownBetween(r, p) ==
    { trace[q].id : q \in { j \in (r + 1)..(p - 1) : trace[j].ev = "text" } }

\* The position in a content of the tool_use block with the id.
PositionOf(content, id) ==
    CHOOSE i \in 1..Len(content) : IsToolUse(content[i]) /\ content[i].id = id

\* C18: whenever a tool of a reply starts executing, every text block of
\* that reply has been displayed, the ones listed after the tool's request
\* included.
C18_AllTextBeforeFirstTool ==
    \A r \in 1..Len(trace) :
        trace[r].ev = "reply" =>
          \A p \in (r + 1)..(NextReplyAfter(r) - 1) :
              trace[p].ev = "start" =>
                 TextBlocks(ReplyAt(r)) \subseteq TextShownBetween(r, p)

\* C18 as amended: whenever a tool of a reply starts executing, the text
\* blocks of that reply displayed so far are exactly the ones listed before
\* the tool's request: the reply is worked through in one pass, in order.
C18_TextAndToolsInReplyOrder ==
    \A r \in 1..Len(trace) :
        trace[r].ev = "reply" =>
          \A p \in (r + 1)..(NextReplyAfter(r) - 1) :
              trace[p].ev = "start" =>
                 TextShownBetween(r, p) =
                    { i \in TextBlocks(ReplyAt(r)) :
                        i < PositionOf(ReplyAt(r), trace[p].id) }

\* A reply listed a tool request and then a text block: the tool has
\* returned and only then the text after it has been displayed.
C18_Witness ==
    \E r \in 1..Len(trace) :
        /\ trace[r].ev = "reply"
        /\ Len(ReplyAt(r)) = 2
        /\ IsToolUse(ReplyAt(r)[1])
        /\ r + 4 <= Len(trace)
        /\ trace[r + 2].ev = "start"
        /\ trace[r + 3].ev = "end"
        /\ trace[r + 4].ev = "text"
        /\ trace[r + 4].id = 2

----------------------------------------------------------------------------
(* C19 *)

\* The history positions of the entries of a kind about a tool id.
EntriesOf(kind, id) ==
    { p \in 1..Len(trace) : trace[p].ev = kind /\ trace[p].id = id }

\* C19: for every tool_use block of the transcript: if its name is
\* registered, every entry into its Function is directly preceded by a log
\* line with the block's name and raw input, there is one log line per
\* entry and never more than one, and exactly one once the round is over;
\* if its name is not registered there is no log line for it.
C19_OneLogLineBeforeExecute ==
    LET blocks == ModelBlocks(conversation)
    IN  \A k \in 1..Len(blocks) :
          IsToolUse(blocks[k]) =>
            LET logs == EntriesOf("log", blocks[k].id)
                starts == EntriesOf("start", blocks[k].id)
            IN  IF Registered(blocks[k].name)
                THEN /\ Cardinality(logs) <= 1
                     /\ starts = { p + 1 : p \in logs }
                     /\ \A p \in logs :
                           /\ trace[p].name = blocks[k].name
                           /\ trace[p].text = <<blocks[k].input>>
                     /\ BetweenRounds => Cardinality(logs) = 1
                ELSE logs = {}

\* A reply asked for an unregistered tool and for a registered one with an
\* input that decodes; both were answered and the model called again.
C19_Witness ==
    /\ calls = 2
    /\ pc = "await"
    /\ \E p \in 1..Len(trace) : trace[p].ev = "notfound"
    /\ \E p \in 1..Len(trace) :
          /\ trace[p].ev = "log"
          /\ trace[p].text[1].valid

----------------------------------------------------------------------------
(* C20 *)

\* C20: the messages of the transcript at odd positions have the user role
\* and those at even positions the assistant role, so the transcript starts
\* with a user message and no two neighbours share a role; every model
\* call, the pending one included, found a transcript that is not empty and
\* ends with a user message.
C20_RolesAlternate ==
    /\ \A k \in 1..Len(conversation) :
          conversation[k].role = IF k % 2 = 1 THEN "user" ELSE "assistant"
    /\ \A p \in 1..Len(trace) :
          trace[p].ev = "call" =>
             /\ trace[p].len >= 1
             /\ conversation[trace[p].len].role = "user"
    /\ pc = "await" =>
          /\ conversation # <<>>
          /\ conversation[Len(conversation)].role = "user"

\* After a tool round and a reply of text only, Run is back at the prompt
\* with four messages in the transcript.
C20_Witness ==
    /\ Len(conversation) = 4
    /\ pc = "loop"
    /\ readUserInput
    /\ IsToolResult(conversation[3].content[1])

----------------------------------------------------------------------------
(* C21 *)

\* The history positions at which the request with the id was taken up:
\* its Function entered, or "tool not found" answered.
Processed(id) ==
    { p \in 1..Len(trace) :
        trace[p].ev \in {"start", "notfound"} /\ trace[p].id = id }

\* The history position of the latest "reply" entry before position p, 0
\* when there is none.
LastReplyBefore(p) ==
    LET rs == { r \in 1..(p - 1) : trace[r].ev = "reply" }
    IN  IF rs = {} THEN 0 ELSE CHOOSE r \in rs : \A q \in rs : q <= r

----------------------------------------------------------------------------
(* C22 *)

----------------------------------------------------------------------------
(* C23 *)

\* The payload names an empty path or equal old_str and new_str.
InvalidParameters(input) ==
    input.path = "" \/ input.old_str = input.new_str

\* The payload names an existing file in which old_str does not occur.
OldStrAbsent(input, f) ==
    /\ Exists(f, input.path)
    /\ Occurrences(f[input.path].content, input.old_str) = {}

\* C23: whenever edit_file has been applied to a payload that decodes and
\* has invalid parameters, or whose old_str does not occur in the existing
\* file, it returned a failure and every file is as it was before: nothing
\* was written and nothing created.
C23_FailureLeavesFilesAlone ==
    (/\ out # <<>>
     /\ arg.input.valid
     /\ \/ InvalidParameters(arg.input)
        \/ OldStrAbsent(arg.input, arg.before))
    => /\ out[1].kind = "err"
       /\ fs = arg.before

\* edit_file failed on an existing file of three symbols in which old_str
\* does not occur.
C23_Witness ==
    /\ out # <<>>
    /\ out[1].text = <<"old_str not found in file">>
    /\ Exists(arg.before, "a.txt")
    /\ Len(arg.before["a.txt"].content) = 3
    /\ arg.input.old_str = <<"y", "x">>

====
